---------------------------- MODULE Spec2Model ----------------------------
(***************************************************************************)
(* Stage 5 contamination refusal (cie_v1/stage5_refusal.rs).               *)
(*                                                                         *)
(* The module is a pure function, stage5_refusal_contract, with its digest *)
(* helper and the halt predicate.  The state of the model is the caller's: *)
(* the five borrowed inputs and the verdicts the calls made so far have    *)
(* returned.  One action, Call, is one call of stage5_refusal_contract.    *)
(*                                                                         *)
(* Representation.                                                         *)
(*   String     a sequence of bytes; String::len is Len.                   *)
(*   [u8; N]    a sequence of N bytes, index i of the source is i + 1.     *)
(*   f64        a record [nan, v]: NaN, or the finite value v.  Every      *)
(*              comparison with NaN is false, as in IEEE 754.              *)
(*   &'static str, enum variants: TLA+ strings.                            *)
(***************************************************************************)
EXTENDS Integers, Sequences, FiniteSets, TLC

VARIABLES scene_before, scene_after, cfg, tel, policy, verdicts

inputs == << scene_before, scene_after, cfg, tel, policy >>
vars == << scene_before, scene_after, cfg, tel, policy, verdicts >>

(* Bounds of the model. *)
MaxFloat == 2
MaxCalls == 2
MaxDiffFields == 2

---------------------------------------------------------------------------
(* f64 *)

NaN == [nan |-> TRUE, v |-> 0]

Fin(n) == [nan |-> FALSE, v |-> n]

f64_gt(a, b) == ~a.nan /\ ~b.nan /\ a.v > b.v

f64_lt(a, b) == ~a.nan /\ ~b.nan /\ a.v < b.v

---------------------------------------------------------------------------
(* Enumerations and literals *)

ArmPhase ==
    { "Orienting", "Retrieving", "Planning", "Generating", "Verifying",
      "Correcting", "Halted" }

ContaminationClass ==
    { "BiologicalIntrusion", "ChemicalSpike", "InstrumentDrift", "LineageBreak",
      "WorldlineImpossibility" }

DetailMutated == "SceneCapsule mutated under refusal path (before != after)"

DetailImpossible == "Impossible worldline flagged (Stage 3 abortion)"

DetailZeroed == "Merkle anchors are zeroed (lineage undefined)"

DetailDegenerate == "prev_root equals merkle_root (degenerate linkage)"

DetailBiological == "Biological intrusion flag asserted"

DetailChemical == "Chemical spike exceeds policy thresholds"

DetailDrift == "Instrument drift exceeds policy threshold"

DetailKaiser == "Kaiser floor below minimum (spectral firewall weakened)"

RefusalFinding(class, detail) == [class |-> class, detail |-> detail]

(* [b; n] *)
Bytes(n, b) == [i \in 1..n |-> b]

(* [0u8; 32] *)
Zero32 == Bytes(32, 0)

---------------------------------------------------------------------------
(* digest_scene_capsule_placeholder *)

(* x & 0xFF *)
LowByte(x) == x % 256

(* Variant: byte 1 repeats the length of scene_id instead of holding the
   length of world_id. *)
digest_repeats_scene_id(sc) ==
    [i \in 1..32 |->
        CASE i \in 1..2 -> LowByte(Len(sc.scene_id))
          [] i = 3 -> LowByte(Len(sc.corridor_id))
          [] i = 4 -> LowByte(Len(sc.finality_tag))
          [] i \in 5..12 -> sc.genesis_hash_sha256[i - 4]
          [] i \in 13..20 -> sc.vaulted_blob_sha256[i - 12]
          [] i \in 21..28 -> sc.merkle_root[i - 20]
          [] i = 29 -> IF sc.stage3_impossible_worldline THEN 1 ELSE 0
          [] OTHER -> 0]

(* Variant: bytes 20..27 copy prev_root instead of merkle_root. *)
digest_folds_prev_root(sc) ==
    [i \in 1..32 |->
        CASE i = 1 -> LowByte(Len(sc.scene_id))
          [] i = 2 -> LowByte(Len(sc.world_id))
          [] i = 3 -> LowByte(Len(sc.corridor_id))
          [] i = 4 -> LowByte(Len(sc.finality_tag))
          [] i \in 5..12 -> sc.genesis_hash_sha256[i - 4]
          [] i \in 13..20 -> sc.vaulted_blob_sha256[i - 12]
          [] i \in 21..28 -> sc.prev_root[i - 20]
          [] i = 29 -> IF sc.stage3_impossible_worldline THEN 1 ELSE 0
          [] OTHER -> 0]

digest_scene_capsule_placeholder(sc) ==
    [i \in 1..32 |->
        CASE i = 1 -> LowByte(Len(sc.scene_id))
          [] i = 2 -> LowByte(Len(sc.world_id))
          [] i = 3 -> LowByte(Len(sc.corridor_id))
          [] i = 4 -> LowByte(Len(sc.finality_tag))
          [] i \in 5..12 -> sc.genesis_hash_sha256[i - 4]
          [] i \in 13..20 -> sc.vaulted_blob_sha256[i - 12]
          [] i \in 21..28 -> sc.merkle_root[i - 20]
          [] i = 29 -> IF sc.stage3_impossible_worldline THEN 1 ELSE 0
          [] OTHER -> 0]

---------------------------------------------------------------------------
(* stage5_refusal_contract: the checks, each pushing onto findings *)

check_mutation(findings, before, after) ==
    IF digest_scene_capsule_placeholder(before)
           # digest_scene_capsule_placeholder(after)
    THEN Append(findings, RefusalFinding("WorldlineImpossibility", DetailMutated))
    ELSE findings

(* Variant: the telemetry flag is not consulted. *)
check_worldline_stage3_only(findings, before, t) ==
    IF before.stage3_impossible_worldline
    THEN Append(findings, RefusalFinding("WorldlineImpossibility", DetailImpossible))
    ELSE findings

check_worldline(findings, before, t) ==
    IF before.stage3_impossible_worldline \/ t.worldline_impossible_flag
    THEN Append(findings, RefusalFinding("WorldlineImpossibility", DetailImpossible))
    ELSE findings

check_lineage_zeroed(findings, before) ==
    IF before.prev_root = Zero32 /\ before.merkle_root = Zero32
    THEN Append(findings, RefusalFinding("LineageBreak", DetailZeroed))
    ELSE findings

(* Variant: the check is the else branch of the zeroed-anchors check. *)
check_lineage_degenerate_else(findings, before) ==
    IF before.prev_root = before.merkle_root
           /\ ~(before.prev_root = Zero32 /\ before.merkle_root = Zero32)
    THEN Append(findings, RefusalFinding("LineageBreak", DetailDegenerate))
    ELSE findings

check_lineage_degenerate(findings, before) ==
    IF before.prev_root = before.merkle_root
    THEN Append(findings, RefusalFinding("LineageBreak", DetailDegenerate))
    ELSE findings

check_biological(findings, t) ==
    IF t.biological_intrusion_flag
    THEN Append(findings, RefusalFinding("BiologicalIntrusion", DetailBiological))
    ELSE findings

(* Variant: one finding for each maximum exceeded. *)
check_chemical_each(findings, t, p) ==
    LET f1 == IF f64_gt(t.acetaldehyde_ppm, p.acetaldehyde_ppm_max)
              THEN Append(findings, RefusalFinding("ChemicalSpike", DetailChemical))
              ELSE findings
    IN  IF f64_gt(t.ethanol_ppm, p.ethanol_ppm_max)
        THEN Append(f1, RefusalFinding("ChemicalSpike", DetailChemical))
        ELSE f1

check_chemical(findings, t, p) ==
    IF f64_gt(t.acetaldehyde_ppm, p.acetaldehyde_ppm_max)
           \/ f64_gt(t.ethanol_ppm, p.ethanol_ppm_max)
    THEN Append(findings, RefusalFinding("ChemicalSpike", DetailChemical))
    ELSE findings

check_drift(findings, t, p) ==
    IF f64_gt(t.instrument_drift_mm, p.instrument_drift_mm_max)
    THEN Append(findings, RefusalFinding("InstrumentDrift", DetailDrift))
    ELSE findings

(* Variant: the floor is compared with <= instead of <. *)
check_kaiser_le(findings, c, p) ==
    IF ~c.kaiser_floor.nan /\ ~p.kaiser_floor_min.nan
           /\ c.kaiser_floor.v <= p.kaiser_floor_min.v
    THEN Append(findings, RefusalFinding("InstrumentDrift", DetailKaiser))
    ELSE findings

check_kaiser(findings, c, p) ==
    IF f64_lt(c.kaiser_floor, p.kaiser_floor_min)
    THEN Append(findings, RefusalFinding("InstrumentDrift", DetailKaiser))
    ELSE findings

(* The key closure of findings.sort_by_key. *)
class_priority(class) ==
    CASE class = "BiologicalIntrusion" -> 10
      [] class = "ChemicalSpike" -> 20
      [] class = "InstrumentDrift" -> 30
      [] class = "LineageBreak" -> 40
      [] class = "WorldlineImpossibility" -> 50

Front(s) == SubSeq(s, 1, Len(s) - 1)

Last(s) == s[Len(s)]

(* One step of the stable sort: x, which followed every element of s, goes
   behind every element whose key is less than or equal to its own. *)
RECURSIVE insert_tail(_, _)
insert_tail(s, x) ==
    IF s = << >> \/ class_priority(Last(s).class) <= class_priority(x.class)
    THEN Append(s, x)
    ELSE Append(insert_tail(Front(s), x), Last(s))

(* Variant: an unstable sort, which puts x in front of the elements whose key
   equals its own. *)
RECURSIVE insert_tail_strict(_, _)
insert_tail_strict(s, x) ==
    IF s = << >> \/ class_priority(Last(s).class) < class_priority(x.class)
    THEN Append(s, x)
    ELSE Append(insert_tail_strict(Front(s), x), Last(s))

RECURSIVE sort_by_key_unstable(_)
sort_by_key_unstable(s) ==
    IF s = << >> THEN << >>
    ELSE insert_tail_strict(sort_by_key_unstable(Front(s)), Last(s))

(* slice::sort_by_key, a stable sort. *)
RECURSIVE sort_by_key(_)
sort_by_key(s) ==
    IF s = << >> THEN << >> ELSE insert_tail(sort_by_key(Front(s)), Last(s))

(* Variant: a refusal hands over to Correcting instead of Halted. *)
make_verdict_correcting(findings) ==
    IF findings = << >>
    THEN [ok |-> TRUE, next_phase |-> "Verifying", findings |-> findings]
    ELSE [ok |-> FALSE, next_phase |-> "Correcting", findings |-> findings]

(* The two return statements. *)
make_verdict(findings) ==
    IF findings = << >>
    THEN [ok |-> TRUE, next_phase |-> "Verifying", findings |-> findings]
    ELSE [ok |-> FALSE, next_phase |-> "Halted", findings |-> findings]

(* Variant: the checks stop at the first finding. *)
collect_findings_early_exit(before, after, c, t, p) ==
    LET f0 == check_mutation(<< >>, before, after)
        f1 == IF f0 # << >> THEN f0 ELSE check_worldline(f0, before, t)
        f2 == IF f1 # << >> THEN f1 ELSE check_lineage_zeroed(f1, before)
        f3 == IF f2 # << >> THEN f2 ELSE check_lineage_degenerate(f2, before)
        f4 == IF f3 # << >> THEN f3 ELSE check_biological(f3, t)
        f5 == IF f4 # << >> THEN f4 ELSE check_chemical(f4, t, p)
        f6 == IF f5 # << >> THEN f5 ELSE check_drift(f5, t, p)
        f7 == IF f6 # << >> THEN f6 ELSE check_kaiser(f6, c, p)
    IN  f7

collect_findings(before, after, c, t, p) ==
    LET f0 == check_mutation(<< >>, before, after)
        f1 == check_worldline(f0, before, t)
        f2 == check_lineage_zeroed(f1, before)
        f3 == check_lineage_degenerate(f2, before)
        f4 == check_biological(f3, t)
        f5 == check_chemical(f4, t, p)
        f6 == check_drift(f5, t, p)
        f7 == check_kaiser(f6, c, p)
    IN  f7

stage5_refusal_contract(before, after, c, t, p) ==
    make_verdict(sort_by_key(collect_findings(before, after, c, t, p)))

enforce_halted_forbids(phase) == phase = "Halted"

---------------------------------------------------------------------------
(* The text of the detail literals *)

(* The characters of a detail literal, one per element, so that
   str::contains can be computed on it. *)
detail_chars(d) ==
    CASE d = DetailMutated ->
         << "S", "c", "e", "n", "e", "C", "a", "p", "s", "u", "l", "e", " ", "m", "u", "t",
            "a", "t", "e", "d", " ", "u", "n", "d", "e", "r", " ", "r", "e", "f", "u", "s",
            "a", "l", " ", "p", "a", "t", "h", " ", "(", "b", "e", "f", "o", "r", "e", " ",
            "!", "=", " ", "a", "f", "t", "e", "r", ")" >>
      [] d = DetailImpossible ->
         << "I", "m", "p", "o", "s", "s", "i", "b", "l", "e", " ", "w", "o", "r", "l", "d",
            "l", "i", "n", "e", " ", "f", "l", "a", "g", "g", "e", "d", " ", "(", "S", "t",
            "a", "g", "e", " ", "3", " ", "a", "b", "o", "r", "t", "i", "o", "n", ")" >>
      [] d = DetailZeroed ->
         << "M", "e", "r", "k", "l", "e", " ", "a", "n", "c", "h", "o", "r", "s", " ", "a",
            "r", "e", " ", "z", "e", "r", "o", "e", "d", " ", "(", "l", "i", "n", "e", "a",
            "g", "e", " ", "u", "n", "d", "e", "f", "i", "n", "e", "d", ")" >>
      [] d = DetailDegenerate ->
         << "p", "r", "e", "v", "_", "r", "o", "o", "t", " ", "e", "q", "u", "a", "l", "s",
            " ", "m", "e", "r", "k", "l", "e", "_", "r", "o", "o", "t", " ", "(", "d", "e",
            "g", "e", "n", "e", "r", "a", "t", "e", " ", "l", "i", "n", "k", "a", "g", "e",
            ")" >>
      [] d = DetailBiological ->
         << "B", "i", "o", "l", "o", "g", "i", "c", "a", "l", " ", "i", "n", "t", "r", "u",
            "s", "i", "o", "n", " ", "f", "l", "a", "g", " ", "a", "s", "s", "e", "r", "t",
            "e", "d" >>
      [] d = DetailChemical ->
         << "C", "h", "e", "m", "i", "c", "a", "l", " ", "s", "p", "i", "k", "e", " ", "e",
            "x", "c", "e", "e", "d", "s", " ", "p", "o", "l", "i", "c", "y", " ", "t", "h",
            "r", "e", "s", "h", "o", "l", "d", "s" >>
      [] d = DetailDrift ->
         << "I", "n", "s", "t", "r", "u", "m", "e", "n", "t", " ", "d", "r", "i", "f", "t",
            " ", "e", "x", "c", "e", "e", "d", "s", " ", "p", "o", "l", "i", "c", "y", " ",
            "t", "h", "r", "e", "s", "h", "o", "l", "d" >>
      [] d = DetailKaiser ->
         << "K", "a", "i", "s", "e", "r", " ", "f", "l", "o", "o", "r", " ", "b", "e", "l",
            "o", "w", " ", "m", "i", "n", "i", "m", "u", "m", " ", "(", "s", "p", "e", "c",
            "t", "r", "a", "l", " ", "f", "i", "r", "e", "w", "a", "l", "l", " ", "w", "e",
            "a", "k", "e", "n", "e", "d", ")" >>

---------------------------------------------------------------------------
(* Inputs *)

(* mk_scene of the tests; each string is given by its bytes:
   "batavia.1924.fermentation.v1", "world:batavia-lab",
   "corridor:fermentation-dynamics", "2026.GOLD". *)
mk_scene ==
    [ scene_id |->
        << 98, 97, 116, 97, 118, 105, 97, 46, 49, 57, 50, 52, 46, 102,
           101, 114, 109, 101, 110, 116, 97, 116, 105, 111, 110, 46, 118, 49 >>,
      world_id |->
        << 119, 111, 114, 108, 100, 58, 98, 97, 116, 97, 118, 105, 97, 45,
           108, 97, 98 >>,
      corridor_id |->
        << 99, 111, 114, 114, 105, 100, 111, 114, 58, 102, 101, 114, 109, 101,
           110, 116, 97, 116, 105, 111, 110, 45, 100, 121, 110, 97, 109, 105,
           99, 115 >>,
      finality_tag |->
        << 50, 48, 50, 54, 46, 71, 79, 76, 68 >>,
      genesis_hash_sha256 |-> Bytes(32, 1),
      vaulted_blob_sha256 |-> Bytes(32, 2),
      merkle_root |-> Bytes(32, 3),
      prev_root |-> Bytes(32, 4),
      stage3_impossible_worldline |-> FALSE ]

StringFields == { "scene_id", "world_id", "corridor_id", "finality_tag" }

IdentifierFields == { "scene_id", "world_id", "corridor_id" }

AnchorFields ==
    { "genesis_hash_sha256", "vaulted_blob_sha256", "merkle_root", "prev_root" }

SceneFields == StringFields \cup AnchorFields \cup { "stage3_impossible_worldline" }

(* Another byte than b. *)
OtherByte(b) == (b + 1) % 256

(* Strings that differ from s: in content only, in length by one, and in
   length by 256. *)
StringVariants(s) ==
    { [s EXCEPT ![Len(s)] = OtherByte(s[Len(s)])],
      Append(s, 33),
      s \o Bytes(256, 33) }

(* Arrays that differ from a in one byte: the first, the last the digest
   copies, and the first it does not copy. *)
AnchorVariants(a) ==
    { [a EXCEPT ![i] = OtherByte(a[i])] : i \in { 1, 8, 9 } }

FieldVariants(sc, f) ==
    IF f \in StringFields THEN StringVariants(sc[f])
    ELSE IF f \in AnchorFields THEN AnchorVariants(sc[f])
    ELSE { ~sc[f] }

(* The capsules one field assignment away from sc. *)
OneFieldAway(sc) ==
    UNION { { [sc EXCEPT ![f] = x] : x \in FieldVariants(sc, f) } : f \in SceneFields }

(* The capsules at most k field assignments away from sc. *)
RECURSIVE Within(_, _)
Within(sc, k) ==
    IF k = 0 THEN { sc }
    ELSE LET near == Within(sc, k - 1)
         IN  near \cup UNION { OneFieldAway(s) : s \in near }

Floats == { NaN } \cup { Fin(n) : n \in 0..MaxFloat }

EmulatorConfigs ==
    [ build_id : { Bytes(20, 9) },
      config_hash_sha256 : { Bytes(32, 8) },
      max_frame_delta_us : { 1490 },
      kaiser_floor : Floats ]

ContaminationTelemetries ==
    [ acetaldehyde_ppm : Floats,
      ethanol_ppm : Floats,
      instrument_drift_mm : Floats,
      biological_intrusion_flag : BOOLEAN,
      worldline_impossible_flag : BOOLEAN ]

clean_cfg ==
    [ build_id |-> Bytes(20, 9), config_hash_sha256 |-> Bytes(32, 8),
      max_frame_delta_us |-> 1490, kaiser_floor |-> Fin(1) ]

uniform_policy ==
    [ acetaldehyde_ppm_max |-> Fin(1), ethanol_ppm_max |-> Fin(1),
      instrument_drift_mm_max |-> Fin(1), kaiser_floor_min |-> Fin(1) ]

(* Three policies: one threshold for all, thresholds that differ from one
   another, and thresholds that are NaN. *)
RefusalPolicies ==
    { uniform_policy,
      [ acetaldehyde_ppm_max |-> Fin(1), ethanol_ppm_max |-> Fin(0),
        instrument_drift_mm_max |-> Fin(0), kaiser_floor_min |-> Fin(2) ],
      [ acetaldehyde_ppm_max |-> NaN, ethanol_ppm_max |-> NaN,
        instrument_drift_mm_max |-> NaN, kaiser_floor_min |-> NaN ] }

(* Capsules of every lineage shape (both roots zeroed, equal and not zeroed,
   different, different with one zeroed), with and without the Stage 3 flag. *)
LineageScenes ==
    { [mk_scene EXCEPT !.merkle_root = r[1], !.prev_root = r[2],
                       !.stage3_impossible_worldline = s] :
        r \in { << Zero32, Zero32 >>, << Bytes(32, 3), Bytes(32, 3) >>,
                << Bytes(32, 3), Bytes(32, 4) >>, << Zero32, Bytes(32, 4) >> },
        s \in BOOLEAN }

(* The telemetry of the tests, clean and spiking. *)
TestTelemetries ==
    { [ acetaldehyde_ppm |-> Fin(a), ethanol_ppm |-> Fin(0),
        instrument_drift_mm |-> Fin(0), biological_intrusion_flag |-> FALSE,
        worldline_impossible_flag |-> FALSE ] : a \in { 0, 2 } }

---------------------------------------------------------------------------
(* The state machine *)

(* ".MUTATED", which the mutation test appends to scene_id. *)
MutatedSuffix == << 46, 77, 85, 84, 65, 84, 69, 68 >>

(* Telemetry, config and policy range widely; after is before, or before
   with a longer scene_id. *)
Init ==
    /\ scene_before \in LineageScenes
    /\ scene_after \in
           { scene_before, [scene_before EXCEPT !.scene_id = @ \o MutatedSuffix] }
    /\ cfg \in EmulatorConfigs
    /\ tel \in ContaminationTelemetries
    /\ policy \in RefusalPolicies
    /\ verdicts = << >>

(* The capsules range widely: after is any capsule at most MaxDiffFields
   field assignments away from before. *)
InitDigest ==
    /\ scene_before \in { mk_scene, [mk_scene EXCEPT !.prev_root = Zero32,
                                                    !.merkle_root = Zero32] }
    /\ scene_after \in Within(scene_before, MaxDiffFields)
    /\ cfg = clean_cfg
    /\ tel \in TestTelemetries
    /\ policy = uniform_policy
    /\ verdicts = << >>

(* Variant: a call that repairs the mutation it detects, writing before over
   after. *)
CallRepairs ==
    /\ Len(verdicts) < MaxCalls
    /\ verdicts' = Append(verdicts,
           stage5_refusal_contract(scene_before, scene_after, cfg, tel, policy))
    /\ scene_after' = scene_before
    /\ UNCHANGED << scene_before, cfg, tel, policy >>

(* One call of stage5_refusal_contract.  The arguments are shared borrows:
   the call returns a fresh verdict and writes nothing else. *)
Call ==
    /\ Len(verdicts) < MaxCalls
    /\ verdicts' = Append(verdicts,
           stage5_refusal_contract(scene_before, scene_after, cfg, tel, policy))
    /\ UNCHANGED inputs

Next == Call

Spec == Init /\ [][Next]_vars

SpecDigest == InitDigest /\ [][Next]_vars

---------------------------------------------------------------------------
(* Vocabulary of the properties *)

(* a <= b and a >= b on f64. *)
f64_le(a, b) == ~a.nan /\ ~b.nan /\ a.v <= b.v

f64_ge(a, b) == ~a.nan /\ ~b.nan /\ a.v >= b.v

Called == verdicts # << >>

(* The verdict of the latest call. *)
verdict == Last(verdicts)

Halts(v) == ~v.ok /\ v.next_phase = "Halted"

(* The number of findings of v that are the finding (class, detail). *)
CountFinding(v, class, detail) ==
    Cardinality({ i \in 1..Len(v.findings) :
                    v.findings[i] = RefusalFinding(class, detail) })

(* The number of findings of v of the class. *)
CountClass(v, class) ==
    Cardinality({ i \in 1..Len(v.findings) : v.findings[i].class = class })

(* The number of findings of v with the detail. *)
CountDetail(v, detail) ==
    Cardinality({ i \in 1..Len(v.findings) : v.findings[i].detail = detail })

(* Every finding with detail d1 stands before every finding with detail d2. *)
Precedes(v, d1, d2) ==
    \A i, j \in 1..Len(v.findings) :
        v.findings[i].detail = d1 /\ v.findings[j].detail = d2 => i < j

(* The order of the taxonomy in the verdict. *)
ClassOrder ==
    << "BiologicalIntrusion", "ChemicalSpike", "InstrumentDrift", "LineageBreak",
       "WorldlineImpossibility" >>

ClassRank(class) == CHOOSE k \in 1..Len(ClassOrder) : ClassOrder[k] = class

(* str::contains on texts given one character per element. *)
Contains(hay, needle) ==
    \E i \in 0..(Len(hay) - Len(needle)) :
        SubSeq(hay, i + 1, i + Len(needle)) = needle

BeforeNeAfter ==
    << "b", "e", "f", "o", "r", "e", " ", "!", "=", " ", "a", "f", "t", "e", "r" >>

(* a and b differ in the field f and in no other. *)
DifferOnlyIn(a, b, f) ==
    /\ a[f] # b[f]
    /\ \A g \in SceneFields \ { f } : a[g] = b[g]

(* a and b agree on everything the digest is said to fold. *)
AgreeOnFolded(a, b) ==
    /\ \A f \in StringFields : Len(a[f]) % 256 = Len(b[f]) % 256
    /\ \A f \in AnchorFields \ { "prev_root" } :
           SubSeq(a[f], 1, 8) = SubSeq(b[f], 1, 8)
    /\ a.stage3_impossible_worldline = b.stage3_impossible_worldline

(* The eight conditions of the checks, in the order of the checks. *)
Condition(k) ==
    CASE k = 1 -> digest_scene_capsule_placeholder(scene_before)
                      # digest_scene_capsule_placeholder(scene_after)
      [] k = 2 -> scene_before.stage3_impossible_worldline
                      \/ tel.worldline_impossible_flag
      [] k = 3 -> scene_before.prev_root = Zero32 /\ scene_before.merkle_root = Zero32
      [] k = 4 -> scene_before.prev_root = scene_before.merkle_root
      [] k = 5 -> tel.biological_intrusion_flag
      [] k = 6 -> f64_gt(tel.acetaldehyde_ppm, policy.acetaldehyde_ppm_max)
                      \/ f64_gt(tel.ethanol_ppm, policy.ethanol_ppm_max)
      [] k = 7 -> f64_gt(tel.instrument_drift_mm, policy.instrument_drift_mm_max)
      [] k = 8 -> f64_lt(cfg.kaiser_floor, policy.kaiser_floor_min)

(* The finding each condition contributes. *)
FindingOf(k) ==
    CASE k = 1 -> RefusalFinding("WorldlineImpossibility", DetailMutated)
      [] k = 2 -> RefusalFinding("WorldlineImpossibility", DetailImpossible)
      [] k = 3 -> RefusalFinding("LineageBreak", DetailZeroed)
      [] k = 4 -> RefusalFinding("LineageBreak", DetailDegenerate)
      [] k = 5 -> RefusalFinding("BiologicalIntrusion", DetailBiological)
      [] k = 6 -> RefusalFinding("ChemicalSpike", DetailChemical)
      [] k = 7 -> RefusalFinding("InstrumentDrift", DetailDrift)
      [] k = 8 -> RefusalFinding("InstrumentDrift", DetailKaiser)

---------------------------------------------------------------------------
(* Properties *)

\* C1: the verdict a call returns is consistent: ok iff findings is empty iff
\* next_phase is Verifying; otherwise ok is false and next_phase is Halted;
\* next_phase is never one of the five other phases; and
\* enforce_halted_forbids(next_phase) holds exactly when ok is false.
C1_VerdictConsistent ==
    Called =>
        LET v == verdict
        IN  /\ v.ok <=> v.findings = << >>
            /\ v.ok <=> v.next_phase = "Verifying"
            /\ ~v.ok => v.next_phase = "Halted"
            /\ v.next_phase \notin
                   { "Orienting", "Retrieving", "Planning", "Generating", "Correcting" }
            /\ enforce_halted_forbids(v.next_phase) <=> ~v.ok

C1_Witness ==
    /\ Called
    /\ ~verdict.ok
    /\ Len(verdict.findings) >= 2
    /\ enforce_halted_forbids(verdict.next_phase)

\* C2: the findings of the verdict a call returns are sorted by class in the order
\* BiologicalIntrusion, ChemicalSpike, InstrumentDrift, LineageBreak,
\* WorldlineImpossibility, and findings of one class keep their emission
\* order: drift before floor, anchors-zeroed before prev_root-equals, mutated
\* before impossible-worldline.
C2_SortedAndStable ==
    Called =>
        LET v == verdict
        IN  /\ \A i, j \in 1..Len(v.findings) :
                   i < j => ClassRank(v.findings[i].class)
                                <= ClassRank(v.findings[j].class)
            /\ Precedes(v, DetailDrift, DetailKaiser)
            /\ Precedes(v, DetailZeroed, DetailDegenerate)
            /\ Precedes(v, DetailMutated, DetailImpossible)

C2_Witness ==
    /\ Called
    /\ Len(verdict.findings) = 8
    /\ verdict.findings[1].class = "BiologicalIntrusion"
    /\ verdict.findings[3].detail = DetailDrift
    /\ verdict.findings[4].detail = DetailKaiser
    /\ verdict.findings[8].detail = DetailImpossible

(* before and after differ in one identifier string and in nothing else. *)
OneIdentifierDiffers ==
    \E f \in IdentifierFields : DifferOnlyIn(scene_before, scene_after, f)

(* The same, and the two strings differ in length modulo 256. *)
OneIdentifierLengthDiffers ==
    \E f \in IdentifierFields :
        /\ DifferOnlyIn(scene_before, scene_after, f)
        /\ Len(scene_before[f]) % 256 # Len(scene_after[f]) % 256

(* The digests differ and the verdict halts with the mutation finding, whose
   text contains "before != after". *)
MutationRefused ==
    /\ digest_scene_capsule_placeholder(scene_before)
           # digest_scene_capsule_placeholder(scene_after)
    /\ Halts(verdict)
    /\ \E i \in 1..Len(verdict.findings) :
           /\ verdict.findings[i].class = "WorldlineImpossibility"
           /\ Contains(detail_chars(verdict.findings[i].detail), BeforeNeAfter)

\* C3 as stated: whenever before and after differ only in one identifier
\* string, the digests differ and the verdict halts with a
\* WorldlineImpossibility finding whose text contains "before != after".
C3_AnyIdentifierChangeRefused ==
    Called /\ OneIdentifierDiffers => MutationRefused

\* C3 amended: whenever before and after differ only in one identifier
\* string and the two strings differ in length modulo 256, the digests differ
\* and the verdict halts with a WorldlineImpossibility finding whose text
\* contains "before != after", whatever the telemetry is.
C3_LengthChangeRefused ==
    Called /\ OneIdentifierLengthDiffers => MutationRefused

C3_Witness ==
    /\ Called
    /\ DifferOnlyIn(scene_before, scene_after, "corridor_id")
    /\ Len(scene_after.corridor_id) = Len(scene_before.corridor_id) + 1
    /\ tel.acetaldehyde_ppm = Fin(0)
    /\ verdict.findings = << RefusalFinding("WorldlineImpossibility", DetailMutated) >>

\* C4: the verdict a call returns holds exactly one ChemicalSpike finding when
\* acetaldehyde_ppm > acetaldehyde_ppm_max or ethanol_ppm > ethanol_ppm_max
\* (also when both are), and none when both concentrations are less than or
\* equal to their maxima; with the finding, ok is false and next_phase Halted.
C4_ChemicalSpike ==
    Called =>
        LET v == verdict
            spikes == CountClass(v, "ChemicalSpike")
        IN  /\ ( f64_gt(tel.acetaldehyde_ppm, policy.acetaldehyde_ppm_max)
                 \/ f64_gt(tel.ethanol_ppm, policy.ethanol_ppm_max) )
                   => spikes = 1
            /\ ( f64_le(tel.acetaldehyde_ppm, policy.acetaldehyde_ppm_max)
                 /\ f64_le(tel.ethanol_ppm, policy.ethanol_ppm_max) )
                   => spikes = 0
            /\ spikes > 0 => Halts(v)

C4_Witness ==
    /\ Called
    /\ f64_gt(tel.acetaldehyde_ppm, policy.acetaldehyde_ppm_max)
    /\ f64_gt(tel.ethanol_ppm, policy.ethanol_ppm_max)
    /\ CountClass(verdict, "ChemicalSpike") = 1

(* The inputs of a clean pass. *)
CleanInputs ==
    /\ scene_before = scene_after
    /\ scene_before.prev_root # scene_before.merkle_root
    /\ ~scene_before.stage3_impossible_worldline
    /\ ~tel.biological_intrusion_flag
    /\ ~tel.worldline_impossible_flag
    /\ f64_le(tel.acetaldehyde_ppm, policy.acetaldehyde_ppm_max)
    /\ f64_le(tel.ethanol_ppm, policy.ethanol_ppm_max)
    /\ f64_le(tel.instrument_drift_mm, policy.instrument_drift_mm_max)
    /\ f64_ge(cfg.kaiser_floor, policy.kaiser_floor_min)

\* C5: on clean inputs (after is before, prev_root # merkle_root, no flag set,
\* every measurement within its threshold, equality included) the verdict is
\* ok = true, next_phase = Verifying, findings empty.
C5_CleanPass ==
    Called /\ CleanInputs =>
        verdict = [ok |-> TRUE, next_phase |-> "Verifying", findings |-> << >>]

C5_Witness ==
    /\ Called
    /\ CleanInputs
    /\ tel.acetaldehyde_ppm = policy.acetaldehyde_ppm_max
    /\ tel.ethanol_ppm = policy.ethanol_ppm_max
    /\ tel.instrument_drift_mm = policy.instrument_drift_mm_max
    /\ cfg.kaiser_floor = policy.kaiser_floor_min
    /\ verdict.ok

\* C6: when before.stage3_impossible_worldline or
\* telemetry.worldline_impossible_flag is true, the verdict halts and holds
\* the impossible-worldline finding exactly once; when both are false, the
\* finding is absent.
C6_ImpossibleWorldline ==
    Called =>
        LET v == verdict
            flagged == CountFinding(v, "WorldlineImpossibility", DetailImpossible)
        IN  IF scene_before.stage3_impossible_worldline \/ tel.worldline_impossible_flag
            THEN Halts(v) /\ flagged = 1 /\ CountDetail(v, DetailImpossible) = 1
            ELSE CountDetail(v, DetailImpossible) = 0

C6_Witness ==
    /\ Called
    /\ scene_before.stage3_impossible_worldline
    /\ tel.worldline_impossible_flag
    /\ CountFinding(verdict, "WorldlineImpossibility", DetailImpossible) = 1

C10_DigestDependence ==
    /\ ( digest_scene_capsule_placeholder(scene_before)
             = digest_scene_capsule_placeholder(scene_after) )
           <=> AgreeOnFolded(scene_before, scene_after)
    /\ Called =>
           /\ CountDetail(verdict, DetailMutated)
                  = IF AgreeOnFolded(scene_before, scene_after) THEN 0 ELSE 1
           /\ ( \/ DifferOnlyIn(scene_before, scene_after, "prev_root")
                \/ \E f \in AnchorFields :
                       /\ DifferOnlyIn(scene_before, scene_after, f)
                       /\ SubSeq(scene_before[f], 1, 8) = SubSeq(scene_after[f], 1, 8)
                \/ \E f \in StringFields :
                       /\ DifferOnlyIn(scene_before, scene_after, f)
                       /\ Len(scene_before[f]) = Len(scene_after[f]) )
                  => CountDetail(verdict, DetailMutated) = 0

C10_Witness ==
    /\ Called
    /\ scene_before.prev_root # scene_after.prev_root
    /\ scene_before.scene_id # scene_after.scene_id
    /\ Len(scene_before.scene_id) = Len(scene_after.scene_id)
    /\ tel.acetaldehyde_ppm = Fin(0)
    /\ scene_before.merkle_root # Zero32
    /\ verdict.ok

=============================================================================
